---- MODULE Spec2Model ----
(***************************************************************************)
(* VictoryCard: the deck definition resolver (core/deck.py) and its        *)
(* helpers (core/util.py).                                                 *)
(*                                                                         *)
(* YAML values are tagged records with one field per kind, so that values  *)
(* of different kinds can be compared:                                     *)
(*   k = "none" | "bool" | "int" | "str" | "list" | "dict"                 *)
(*   i : the integer, s : the string as the sequence of its parts (the     *)
(*   characters of a number, the name and extension of a file name),       *)
(*   l : the sequence of items, m : the mapping (a function on keys).      *)
(* A dotted key such as "p.q" is the sequence of its segments <<"p","q">>. *)
(***************************************************************************)
EXTENDS Integers, Sequences, FiniteSets, TLC

VARIABLES
    pc,     \* which operation the pure-function specifications are at
    call,   \* the arguments of the pure function under check
    ret,    \* its outcome
    fs,     \* the file system: path -> [exists, mtime, doc]
    now,    \* the file system's clock (source of modification times)
    deck,   \* the Deck object: source tracker and committed attributes
    obs     \* what the last Deck operation did (resolved, rendered, raised)

vars == <<pc, call, ret, fs, now, deck, obs>>

----------------------------------------------------------------------------
(* YAML values *)

EmptyMap == [x \in {} |-> x]

YNone == [k |-> "none", i |-> 0, s |-> <<>>, l |-> <<>>, m |-> EmptyMap]
YInt(n) == [k |-> "int", i |-> n, s |-> <<>>, l |-> <<>>, m |-> EmptyMap]
YStr(cs) == [k |-> "str", i |-> 0, s |-> cs, l |-> <<>>, m |-> EmptyMap]
YList(items) == [k |-> "list", i |-> 0, s |-> <<>>, l |-> items, m |-> EmptyMap]
YDict(map) == [k |-> "dict", i |-> 0, s |-> <<>>, l |-> <<>>, m |-> map]
YTrue == [k |-> "bool", i |-> 1, s |-> <<>>, l |-> <<>>, m |-> EmptyMap]

\* all mappings with some of `keys`, each bound to one of `vals`
MapsOver(keys, vals) == UNION {[ks -> vals] : ks \in SUBSET keys}

\* the Deck variables while a pure function is checked on its own
NoFs == EmptyMap
NoDeck == EmptyMap
NoObs == EmptyMap

DeckIdle == fs = NoFs /\ now = 0 /\ deck = NoDeck /\ obs = NoObs

----------------------------------------------------------------------------
(* core/util.py *)

\* isinstance(o_val, type(b_val)) on decoded YAML values
isinstance(o_val, b_val) == o_val.k = b_val.k

\* key.split('.', 1)[0]
split0(key) == key[1]

\* key.split('.', 1)[1]
split1(key) == Tail(key)

\* '.' in key
HasDot(key) == Len(key) > 1

\* the keys dict_merge iterates over
MergeKeys(base, overrides, ignore_keys) ==
    ((DOMAIN base) \cup (DOMAIN overrides)) \ {split0(key) : key \in ignore_keys}

\* the ignore set dict_merge hands to a recursive call
NestedIgnore(ignore_keys) ==
    {split1(key) : key \in {x \in ignore_keys : HasDot(x)}}

\* MergeSameType with the sequences concatenated overrides first
MergeSameType_OverridesFirst(b_val, o_val, merged) ==
    IF b_val.k = "dict" THEN YDict(merged)
    ELSE IF b_val.k = "list" THEN YList(o_val.l \o b_val.l)
    ELSE o_val

\* result[key] for a key both sides have and whose values are of one type
MergeSameType(b_val, o_val, merged) ==
    IF b_val.k = "dict" THEN YDict(merged)
    ELSE IF b_val.k = "list" THEN YList(b_val.l \o o_val.l)
    ELSE o_val

RECURSIVE dict_merge(_, _, _)
dict_merge(base, overrides, ignore_keys) ==
    LET val(key) ==
            IF key \notin DOMAIN overrides THEN base[key]
            ELSE IF key \notin DOMAIN base THEN overrides[key]
            ELSE LET b_val == base[key]
                     o_val == overrides[key]
                 IN  IF isinstance(o_val, b_val)
                     THEN MergeSameType(b_val, o_val,
                              IF b_val.k = "dict"
                              THEN dict_merge(b_val.m, o_val.m, NestedIgnore(ignore_keys))
                              ELSE EmptyMap)
                     ELSE o_val
    IN  [key \in MergeKeys(base, overrides, ignore_keys) |-> val(key)]

----------------------------------------------------------------------------
(* core/deck.py: multiplicity and entries *)

Max(a, b) == IF a >= b THEN a ELSE b

Digits == {"0", "1", "2", "3", "4", "5", "6", "7", "8", "9"}

DigitVal(c) ==
    CASE c = "0" -> 0 [] c = "1" -> 1 [] c = "2" -> 2 [] c = "3" -> 3 [] c = "4" -> 4
      [] c = "5" -> 5 [] c = "6" -> 6 [] c = "7" -> 7 [] c = "8" -> 8 [] c = "9" -> 9

\* the string is a run of decimal digits
IsDigits(cs) == Len(cs) > 0 /\ \A n \in 1..Len(cs) : cs[n] \in Digits

RECURSIVE DigitsVal(_)
DigitsVal(cs) ==
    IF Len(cs) = 0 THEN 0
    ELSE 10 * DigitsVal(SubSeq(cs, 1, Len(cs) - 1)) + DigitVal(cs[Len(cs)])

\* int(x) accepts a string that is an optionally signed run of digits
IsIntLiteral(cs) ==
    IF Len(cs) > 0 /\ cs[1] \in {"-", "+"} THEN IsDigits(Tail(cs)) ELSE IsDigits(cs)

ParseInt(cs) ==
    IF cs[1] = "-" THEN 0 - DigitsVal(Tail(cs))
    ELSE IF cs[1] = "+" THEN DigitsVal(Tail(cs))
    ELSE DigitsVal(cs)

\* int(x): a ValueError for a string that is no integer literal, a TypeError
\* for None, a list or a dict
PyInt(x) ==
    IF x.k = "int" THEN [exc |-> "", val |-> x.i]
    ELSE IF x.k = "str"
         THEN IF IsIntLiteral(x.s) THEN [exc |-> "", val |-> ParseInt(x.s)]
              ELSE [exc |-> "ValueError", val |-> 0]
    ELSE [exc |-> "TypeError", val |-> 0]

\* sanitize_copies without the clamp to 0
sanitize_copies_NoClamp(copies, default) ==
    LET r == PyInt(IF copies.k # "none" THEN copies ELSE default)
    IN  IF r.exc = "" THEN [exc |-> "", val |-> YInt(r.val), warned |-> FALSE]
        ELSE IF r.exc = "ValueError" THEN [exc |-> "", val |-> default, warned |-> TRUE]
        ELSE [exc |-> r.exc, val |-> YNone, warned |-> FALSE]

\* only ValueError is caught; any other exception of int() propagates
sanitize_copies(copies, default) ==
    LET r == PyInt(IF copies.k # "none" THEN copies ELSE default)
    IN  IF r.exc = "" THEN [exc |-> "", val |-> YInt(Max(r.val, 0)), warned |-> FALSE]
        ELSE IF r.exc = "ValueError" THEN [exc |-> "", val |-> default, warned |-> TRUE]
        ELSE [exc |-> r.exc, val |-> YNone, warned |-> FALSE]

\* mapping.get(key) / mapping.pop(key, None)
dict_get(mapping, key) == IF key \in DOMAIN mapping THEN mapping[key] ELSE YNone

\* {**defaults, **data}
Override(defaults, data) ==
    [key \in (DOMAIN defaults) \cup (DOMAIN data) |->
        IF key \in DOMAIN data THEN data[key] ELSE defaults[key]]

\* _Card(id, defaults, data): the copies key is popped from data before the
\* fields are built
Card(id, defaults, data) ==
    LET s == sanitize_copies(dict_get(data, "copies"), dict_get(defaults, "copies"))
        rest == [key \in (DOMAIN data) \ {"copies"} |-> data[key]]
    IN  [exc |-> s.exc, warned |-> s.warned, id |-> id, copies |-> s.val,
         fields |-> Override(defaults, rest)]

\* _Card.skip
skip(card) == card.copies.i <= 0

\* f"card{index}"
CardName(index) == "card" \o ToString(index)

\* the index of the first element of seq satisfying exc # "", or 0
FirstRaising(seq) ==
    IF \E n \in 1..Len(seq) : seq[n].exc # ""
    THEN CHOOSE n \in 1..Len(seq) :
            seq[n].exc # "" /\ \A j \in 1..(n - 1) : seq[j].exc = ""
    ELSE 0

\* Deck._interpret_source, lines 149-166: the defaults, the cards and the
\* index; `order` is the iteration order of the cards mapping
InterpretCards(deck_info, order) ==
    LET section == dict_get(deck_info, "default")
        defaults0 == IF "default" \in DOMAIN deck_info THEN section.m ELSE EmptyMap
        d == sanitize_copies(dict_get(defaults0, "copies"), YInt(1))
        defaults == Override(defaults0, [copies |-> d.val])
        cards == deck_info["cards"]
        made == IF cards.k = "dict"
                THEN [n \in 1..Len(order) |-> Card(order[n], defaults, cards.m[order[n]].m)]
                ELSE [n \in 1..Len(cards.l) |-> Card(CardName(n), defaults, cards.l[n].m)]
        bad == FirstRaising(made)
        upto == IF bad = 0 THEN Len(made) ELSE bad - 1
        warnings == (IF d.warned THEN {"default"} ELSE {})
                    \cup {made[n].id : n \in {j \in 1..upto : made[j].warned}}
        none == [exc |-> "", cards |-> <<>>, card_index |-> EmptyMap, warnings |-> {}]
    IN  IF d.exc # "" THEN [none EXCEPT !.exc = d.exc]
        ELSE IF "cards" \notin DOMAIN deck_info
             THEN [none EXCEPT !.exc = "KeyError",
                               !.warnings = IF d.warned THEN {"default"} ELSE {}]
        ELSE IF bad # 0 THEN [none EXCEPT !.exc = made[bad].exc, !.warnings = warnings]
        ELSE [exc |-> "",
              cards |-> [n \in 1..Len(made) |->
                            [id |-> made[n].id, copies |-> made[n].copies,
                             fields |-> made[n].fields]],
              card_index |-> [id \in {made[n].id : n \in 1..Len(made)} |->
                                LET n == CHOOSE j \in 1..Len(made) :
                                            made[j].id = id
                                               /\ \A j2 \in (j + 1)..Len(made) : made[j2].id # id
                                IN  [id |-> made[n].id, copies |-> made[n].copies,
                                     fields |-> made[n].fields]],
              warnings |-> warnings]

----------------------------------------------------------------------------
(* SpecCards: the entry normalizer applied to bounded definitions *)

CopiesVals ==
    {YNone, YInt(0 - 1), YInt(0), YInt(1), YInt(3),
     YStr(<<"2">>), YStr(<<"-", "1">>), YStr(<<"a", "b", "c">>),
     YList(<<YInt(1)>>), YDict(EmptyMap)}

NameVals == {YStr(<<"A">>)}

\* an entry or the default section: `copies` and `name` each given or absent
EntryMaps ==
    {Override(cm, nm) : cm \in MapsOver({"copies"}, CopiesVals),
                        nm \in MapsOver({"name"}, NameVals)}

Perms(S) == {f \in [1..Cardinality(S) -> S] : \A a, b \in DOMAIN f : f[a] = f[b] => a = b}

CardsSections ==
    {YDict(cm) : cm \in MapsOver({"c1", "c2"}, {YDict(e) : e \in EntryMaps})}
    \cup {YList(<<YDict(e)>>) : e \in EntryMaps}
    \cup {YList(<<YDict(e1), YDict(e2)>>) : e1 \in EntryMaps, e2 \in EntryMaps}

\* the iteration orders a cards section can have
OrdersOf(cards) == IF cards.k = "dict" THEN Perms(DOMAIN cards.m) ELSE {<<>>}

DefaultSections == MapsOver({"default"}, {YDict(e) : e \in EntryMaps})

InitCards ==
    /\ pc = "call"
    /\ \E dm \in DefaultSections :
          \/ \E c \in CardsSections : \E o \in OrdersOf(c) :
                call = [deck_info |-> Override(dm, [cards |-> c]), order |-> o]
          \/ call = [deck_info |-> dm, order |-> <<>>]
    /\ ret = YNone
    /\ DeckIdle

ApplyCards ==
    /\ pc = "call"
    /\ ret' = InterpretCards(call.deck_info, call.order)
    /\ pc' = "done"
    /\ UNCHANGED <<call, fs, now, deck, obs>>

NextCards == ApplyCards

SpecCards == InitCards /\ [][NextCards]_vars

\* the entries of the cards section of the call, in order: <<id, data>>
CallEntries ==
    LET cards == call.deck_info["cards"]
    IN  IF cards.k = "dict"
        THEN [n \in 1..Len(call.order) |->
                [id |-> call.order[n], data |-> cards.m[call.order[n]].m]]
        ELSE [n \in 1..Len(cards.l) |-> [id |-> CardName(n), data |-> cards.l[n].m]]

\* the copies value the default section of the call gives, or YNone
CallDefaultCopies ==
    IF "default" \in DOMAIN call.deck_info
    THEN dict_get(call.deck_info["default"].m, "copies")
    ELSE YNone

\* a copies value int() converts
Convertible(v) == v.k = "int" \/ (v.k = "str" /\ IsIntLiteral(v.s))

IntOf(v) == IF v.k = "int" THEN v.i ELSE ParseInt(v.s)

\* the document-level default multiplicity: the default section's copies,
\* clamped, or 1 when it gives none or gives one that is not convertible
CallDefaultMultiplicity ==
    IF Convertible(CallDefaultCopies) THEN Max(IntOf(CallDefaultCopies), 0) ELSE 1

\* C9: sanitization never raises and never aborts the pass: for every copies
\* value of an entry or of the default section (integer, numeric string,
\* non-numeric string, list or mapping) a convertible value is used and any
\* other value falls back to the document default with a warning.
C9_SanitizeNeverRaises ==
    (pc = "done" /\ "cards" \in DOMAIN call.deck_info) =>
        /\ ret.exc = ""
        /\ Len(ret.cards) = Len(CallEntries)
        /\ \A n \in 1..Len(ret.cards) :
              LET own == dict_get(CallEntries[n].data, "copies")
              IN  /\ Convertible(own) => ret.cards[n].copies = YInt(Max(IntOf(own), 0))
                  /\ (own.k # "none" /\ ~Convertible(own)) =>
                        /\ ret.cards[n].copies = YInt(CallDefaultMultiplicity)
                        /\ ret.cards[n].id \in ret.warnings

\* the part of C9 the code keeps: a string that is no integer literal falls
\* back to the default multiplicity with a warning and does not raise
C9_NonNumericStringFallsBack ==
    (pc = "done" /\ ret.exc = "") =>
        \A n \in 1..Len(ret.cards) :
            LET own == dict_get(CallEntries[n].data, "copies")
            IN  (own.k = "str" /\ ~IsIntLiteral(own.s)) =>
                    /\ ret.cards[n].copies = YInt(CallDefaultMultiplicity)
                    /\ ret.cards[n].id \in ret.warnings

\* C10: in a resolved deck every entry's multiplicity is a non-negative
\* integer (negative clamped to 0, missing takes the document default, itself
\* 1 when the document gives none), an entry is flagged skip exactly when its
\* multiplicity is 0, and zero-multiplicity entries stay in cards and
\* card_index at their position.
C10_MultiplicityAndSkip ==
    (pc = "done" /\ ret.exc = "") =>
        /\ Len(ret.cards) = Len(CallEntries)
        /\ DOMAIN ret.card_index = {CallEntries[n].id : n \in 1..Len(CallEntries)}
        /\ \A n \in 1..Len(ret.cards) :
              LET card == ret.cards[n]
                  own == dict_get(CallEntries[n].data, "copies")
              IN  /\ card.id = CallEntries[n].id
                  /\ ret.card_index[card.id] = card
                  /\ card.copies.k = "int" /\ card.copies.i >= 0
                  /\ (Convertible(own) /\ IntOf(own) < 0) => card.copies.i = 0
                  /\ own.k = "none" => card.copies.i = CallDefaultMultiplicity
                  /\ (own.k = "none" /\ CallDefaultCopies.k = "none") => card.copies.i = 1
                  /\ skip(card) <=> card.copies.i = 0

\* C10 witness: cards {c1: {copies: 0}, c2: {}} with default copies 1 has
\* been resolved to two entries, c1 skipped and c2 not
C10_Witness ==
    /\ pc = "done" /\ ret.exc = ""
    /\ call.deck_info = [default |-> YDict([copies |-> YInt(1)]),
                          cards |-> YDict([c1 |-> YDict([copies |-> YInt(0)]),
                                           c2 |-> YDict(EmptyMap)])]
    /\ call.order = <<"c1", "c2">>
    /\ Len(ret.cards) = 2
    /\ ret.cards[1].id = "c1" /\ skip(ret.cards[1])
    /\ ret.cards[2].id = "c2" /\ ~skip(ret.cards[2]) /\ ret.cards[2].copies = YInt(1)
    /\ DOMAIN ret.card_index = {"c1", "c2"}

----------------------------------------------------------------------------
(* core/deck.py: the definition resolver *)

\* A path is the sequence of the parts of a file name, its extension last:
\* <<"A", ".yml">> is A.yml. All files live in the directory of the root.
ExtParts ==
    {".yml", ".css", ".html", ".html.header", ".html.jinja2", ".jinja2", ".hj2", ".vct"}

\* the bound on the recursion depth of _parse_definitions (Python's
\* recursion limit): exceeding it raises RecursionError
RecursionLimit == 5

\* os.path.exists / os.path.isfile on a snapshot of the file system
Exists(files, path) == path \in DOMAIN files /\ files[path].exists

\* os.path.join(os.path.dirname(path), definitions['extends'])
ParentPath(path, definitions) == definitions["extends"].s

\* the outcome of a call: exc = "" on return, else the exception and its
\* argument
Returned(defs, deps) == [exc |-> "", arg |-> <<>>, defs |-> defs, deps |-> deps]
Raised(exc, arg) == [exc |-> exc, arg |-> arg, defs |-> EmptyMap, deps |-> <<>>]

\* the cycle check of _parse_definitions looking at the file itself only
CycleDetected_SelfOnly(parent_path, path, child_paths) == parent_path = path

\* os.path.samefile(parent_path, path), then the same against every path in
\* child_paths (all these files exist when the check runs)
CycleDetected(parent_path, path, child_paths) ==
    \/ parent_path = path
    \/ \E n \in 1..Len(child_paths) : parent_path = child_paths[n]

\* AfterParent with the merge arguments the other way round
AfterParent_ParentWins(parent_path, definitions, parent) ==
    IF parent.exc = "FileNotFoundError" THEN Raised("MissingDependency", parent_path)
    ELSE IF parent.exc # "" THEN parent
    ELSE Returned(dict_merge(definitions, parent.defs, {<<"extends">>}),
                  <<parent_path>> \o parent.deps)

\* what _parse_definitions does with the outcome of its recursive call
AfterParent(parent_path, definitions, parent) ==
    IF parent.exc = "FileNotFoundError" THEN Raised("MissingDependency", parent_path)
    ELSE IF parent.exc # "" THEN parent
    ELSE Returned(dict_merge(parent.defs, definitions, {<<"extends">>}),
                  <<parent_path>> \o parent.deps)

RECURSIVE parse_definitions(_, _, _, _)
parse_definitions(files, path, child_paths, depth) ==
    IF depth > RecursionLimit THEN Raised("RecursionError", path)
    ELSE IF ~Exists(files, path) THEN Raised("FileNotFoundError", path)
    ELSE IF files[path].doc.k # "dict" THEN Raised("DeckError", path)
    ELSE LET definitions == files[path].doc.m IN
         IF "extends" \notin DOMAIN definitions THEN Returned(definitions, <<>>)
         ELSE LET parent_path == ParentPath(path, definitions) IN
              \* os.path.samefile stats both paths, outside the try block
              IF ~Exists(files, parent_path) THEN Raised("FileNotFoundError", parent_path)
              ELSE IF CycleDetected(parent_path, path, child_paths)
                   THEN Raised("CyclicDependency", path)
              ELSE AfterParent(parent_path, definitions,
                       parse_definitions(files, parent_path, <<path>> \o child_paths,
                                         depth + 1))

----------------------------------------------------------------------------
(* SpecResolve: _parse_definitions applied to bounded file systems *)

FileA == <<"A", ".yml">>
FileB == <<"B", ".yml">>
FileC == <<"C", ".yml">>
FileM == <<"M", ".yml">>

DefFiles == {FileA, FileB, FileC}

\* the documents a definition file can hold: no mapping, or a mapping with
\* any of extends, title (a scalar), tags (a sequence), general (a mapping)
DocsOf(path) ==
    {YList(<<YStr(path)>>)}
    \cup {YDict(Override(Override(e, ti), Override(ta, g))) :
            e \in MapsOver({"extends"}, {YStr(f) : f \in DefFiles \cup {FileM}}),
            ti \in MapsOver({"title"}, {YStr(path)}),
            ta \in MapsOver({"tags"}, {YList(<<YStr(path)>>)}),
            g \in MapsOver({"general"}, {YDict([icon_path |-> YStr(path)])})}

Missing == [exists |-> FALSE, doc |-> YNone]

FileStates(path) == {Missing} \cup {[exists |-> TRUE, doc |-> d] : d \in DocsOf(path)}

InitResolve ==
    /\ pc = "call"
    /\ \E a \in FileStates(FileA) \ {Missing}, b \in FileStates(FileB),
          c \in FileStates(FileC) :
            call = [path |-> FileA,
                    files |-> (FileA :> a) @@ (FileB :> b) @@ (FileC :> c)
                              @@ (FileM :> Missing)]
    /\ ret = YNone
    /\ DeckIdle

ApplyResolve ==
    /\ pc = "call"
    /\ ret' = parse_definitions(call.files, call.path, <<>>, 1)
    /\ pc' = "done"
    /\ UNCHANGED <<call, fs, now, deck, obs>>

NextResolve == ApplyResolve

SpecResolve == InitResolve /\ [][NextResolve]_vars

\* the extends target a file declares, or <<>> (no file, no mapping, no
\* extends key)
ExtendsOf(files, path) ==
    IF Exists(files, path) /\ files[path].doc.k = "dict"
       /\ "extends" \in DOMAIN files[path].doc.m
    THEN files[path].doc.m["extends"].s
    ELSE <<>>

\* the files met by following extends from path for n steps, nearest first,
\* stopping where there is no target
RECURSIVE Follow(_, _, _)
Follow(files, path, n) ==
    IF n = 0 \/ ExtendsOf(files, path) = <<>> THEN <<path>>
    ELSE <<path>> \o Follow(files, ExtendsOf(files, path), n - 1)

NoRepeat(seq) == \A a, b \in 1..Len(seq) : seq[a] = seq[b] => a = b

\* the chain of the call: following extends once per definition file meets
\* every file that can be met
CallChain == Follow(call.files, call.path, Cardinality(DefFiles))

\* following extends from the root revisits a file already on the chain
CallIsCyclic ==
    /\ ~NoRepeat(CallChain)
    /\ \A n \in 1..Len(CallChain) :
          Exists(call.files, CallChain[n]) /\ call.files[CallChain[n]].doc.k = "dict"

\* C4: whenever following extends from the root revisits a file already on
\* the chain, _parse_definitions terminates raising CyclicDependency: it
\* neither exhausts the recursion nor returns a merged result.
C4_CycleRaisesCyclicDependency ==
    (pc = "done" /\ CallIsCyclic) => ret.exc = "CyclicDependency"

\* C4 witness: the cycle A -> B -> C -> B, which does not pass through the
\* root, has been resolved
C4_Witness ==
    /\ pc = "done"
    /\ CallChain = <<FileA, FileB, FileC, FileB>>
    /\ ret.exc = "CyclicDependency"

\* the first file of the chain that does not exist, if the chain reaches one
\* before it revisits a file
CallMissingTarget ==
    LET n == CHOOSE j \in 1..Len(CallChain) : ~Exists(call.files, CallChain[j])
    IN  CallChain[n]

CallHasMissingTarget ==
    /\ \E j \in 1..Len(CallChain) : ~Exists(call.files, CallChain[j])
    /\ \A j \in 1..Len(CallChain) :
          Exists(call.files, CallChain[j]) => call.files[CallChain[j]].doc.k = "dict"
    /\ NoRepeat(CallChain)

\* C5: if the extends target of the root or of any ancestor does not exist,
\* resolution fails with MissingDependency naming exactly that path.
C5_MissingTargetNamed ==
    (pc = "done" /\ CallHasMissingTarget) =>
        ret.exc = "MissingDependency" /\ ret.arg = CallMissingTarget

\* merge over a chain given nearest first: the most distant ancestor is the
\* base, each closer document overrides
RECURSIVE FoldChain(_, _)
FoldChain(files, chain) ==
    IF Len(chain) = 1 THEN files[chain[1]].doc.m
    ELSE dict_merge(FoldChain(files, Tail(chain)), files[chain[1]].doc.m, {<<"extends">>})

\* the nearest document of the chain that has the key
Nearest(files, chain, key) ==
    chain[CHOOSE n \in 1..Len(chain) :
            /\ key \in DOMAIN files[chain[n]].doc.m
            /\ \A j \in 1..(n - 1) : key \notin DOMAIN files[chain[j]].doc.m]

\* C6: resolving a document is folding the merge over its chain from the most
\* distant ancestor to the document: without extends the document unchanged
\* and no ancestors; for A extends B extends C merge(merge(C, B), A) and
\* ancestors [B, C]; the closest document wins a conflicting scalar key and
\* the result has no extends key.
C6_ResolveIsFold ==
    (pc = "done" /\ ret.exc = "") =>
        /\ ret.deps = Tail(CallChain)
        /\ ret.defs = FoldChain(call.files, CallChain)
        /\ "extends" \notin DOMAIN ret.defs
        /\ Len(CallChain) = 1 => ret.defs = call.files[call.path].doc.m /\ ret.deps = <<>>
        /\ CallChain = <<FileA, FileB, FileC>> =>
              ret.defs = dict_merge(dict_merge(call.files[FileC].doc.m,
                                               call.files[FileB].doc.m, {<<"extends">>}),
                                    call.files[FileA].doc.m, {<<"extends">>})
        /\ \A key \in DOMAIN ret.defs :
              ret.defs[key].k = "str" =>
                  ret.defs[key] = call.files[Nearest(call.files, CallChain, key)].doc.m[key]

\* C6 witness: A extends B extends C resolved, title given by B and C only
\* (B wins), tags by all three (concatenated from C to A)
C6_Witness ==
    /\ pc = "done" /\ ret.exc = ""
    /\ ret.deps = <<FileB, FileC>>
    /\ "title" \notin DOMAIN call.files[FileA].doc.m
    /\ "title" \in DOMAIN call.files[FileC].doc.m
    /\ {"title", "tags"} \subseteq DOMAIN ret.defs
    /\ ret.defs["title"] = YStr(FileB)
    /\ ret.defs["tags"] = YList(<<YStr(FileC), YStr(FileB), YStr(FileA)>>)

----------------------------------------------------------------------------
(* core/deck.py: tracked files *)

\* _SourceFile(path): the baseline is the modification time at creation
SourceFile(files, path) == [path |-> path, mtime |-> files[path].mtime]

\* _SourceFile.base: the name without its extension
BaseOf(path) == SubSeq(path, 1, Len(path) - 1)

\* _SourceFile.refresh(): reports dirtiness and rebases the baseline
refresh(files, tracker) ==
    [is_dirty |-> files[tracker.path].mtime > tracker.mtime,
     tracker |-> [tracker EXCEPT !.mtime = files[tracker.path].mtime]]

----------------------------------------------------------------------------
(* core/util.py: get_first, find_working_ext, the transaction overlay *)

\* get_first(mapping, *attrs, default=default)
RECURSIVE get_first(_, _, _)
get_first(mapping, attrs, default) ==
    IF Len(attrs) = 0 THEN default
    ELSE IF attrs[1] \in DOMAIN mapping THEN mapping[attrs[1]]
    ELSE get_first(mapping, Tail(attrs), default)

\* os.path.splitext(base)[1] is not empty
HasExt(base) == Len(base) > 0 /\ base[Len(base)] \in ExtParts

\* find_working_ext(base, *extensions); <<>> stands for None
RECURSIVE find_working_ext(_, _, _)
find_working_ext(files, base, extensions) ==
    IF HasExt(base) THEN base
    ELSE IF Len(extensions) = 0 THEN <<>>
    ELSE IF Exists(files, base \o <<extensions[1]>>) THEN base \o <<extensions[1]>>
    ELSE find_working_ext(files, base, Tail(extensions))

\* TransactionDelegate(delegate)
Transaction(delegate) == [delegate |-> delegate, overrides |-> EmptyMap]

\* TransactionDelegate.__getattr__
tx_getattr(tx, attr) ==
    IF attr \in DOMAIN tx.overrides THEN tx.overrides[attr] ELSE tx.delegate[attr]

\* TransactionDelegate.__setattr__
tx_setattr(tx, attr, value) ==
    [tx EXCEPT !.overrides = Override(tx.overrides, (attr :> value))]

\* self.<attr>[key] = value on the transaction: __getattr__ hands out the
\* staged object if there is one and the delegate's own object otherwise,
\* and the item assignment mutates that object in place
tx_setitem(tx, attr, key, value) ==
    IF attr \in DOMAIN tx.overrides
    THEN [tx EXCEPT !.overrides[attr] = Override(tx.overrides[attr], (key :> value))]
    ELSE [tx EXCEPT !.delegate[attr] = Override(tx.delegate[attr], (key :> value))]

\* TransactionDelegate.commit()
tx_commit(tx) == Override(tx.delegate, tx.overrides)

\* transactional that writes the staged attributes back in every case
transactional_CommitAlways(result) == tx_commit(result.tx)

\* transactional(method): the delegate's attributes after the call; the
\* overlay is committed only when the method returned
transactional(result) ==
    IF result.exc = "" THEN tx_commit(result.tx) ELSE result.tx.delegate

----------------------------------------------------------------------------
(* core/deck.py: Deck *)

\* a value that `value or default` replaces by the default
Falsy(v) ==
    \/ v.k = "none"
    \/ v.k = "int" /\ v.i = 0
    \/ v.k = "str" /\ v.s = <<>>
    \/ v.k = "list" /\ v.l = <<>>
    \/ v.k = "dict" /\ DOMAIN v.m = {}

\* the outcome of a step of _interpret_source
Step(exc, arg, tx) == [exc |-> exc, arg |-> arg, tx |-> tx]

\* `value or default` for the value get_first found
OrDefault(given, default) == IF Falsy(given) THEN default ELSE given.s

\* Deck._sub_source, lines 175-185: the path of the reference, <<>> for None
SubSourcePath(files, base, extensions) ==
    IF Len(extensions) > 0 THEN find_working_ext(files, base, extensions) ELSE base

\* TrackSubSource that treats every reference as not required
TrackSubSource_NothingRequired(files, tx, attribute, value, path, required) ==
    IF path # <<>> /\ Exists(files, path)
    THEN Step("", <<>>, tx_setitem(tx, "sub_sources", attribute, SourceFile(files, path)))
    ELSE Step("", <<>>, tx)

\* Deck._sub_source, lines 177-192, for the path found
TrackSubSource(files, tx, attribute, value, path, required) ==
    IF path # <<>> /\ Exists(files, path)
    THEN Step("", <<>>, tx_setitem(tx, "sub_sources", attribute, SourceFile(files, path)))
    ELSE IF required THEN Step("MissingDependency", value, tx)
    ELSE Step("", <<>>, tx)

\* Deck._sub_source(config, attribute, *aliases, default, required, extensions),
\* called after the step `prev`; an exception of prev ends the pass
sub_source(files, prev, config, names, default, required, extensions) ==
    IF prev.exc # "" THEN prev
    ELSE TrackSubSource(files, prev.tx, names[1],
                        OrDefault(get_first(config, names, YNone), default),
                        SubSourcePath(files,
                                      OrDefault(get_first(config, names, YNone), default),
                                      extensions),
                        required)

TemplateExts == <<".html.jinja2", ".jinja2", ".hj2", ".vct">>

\* deck_info.get('general', {})
GeneralOf(deck_info) ==
    IF "general" \in DOMAIN deck_info THEN deck_info["general"].m ELSE EmptyMap

\* Deck._interpret_source, lines 112-129: title, output and the options
StageOptions(base, tx, deck_info, general) ==
    tx_setattr(tx_setattr(tx_setattr(tx_setattr(tx_setattr(tx_setattr(tx,
        "title", dict_get(deck_info, "title")),
        "output", get_first(general, <<"output", "destination", "dest">>,
                            YStr(base \o <<".html">>)).s),
        "icon_path", get_first(general, <<"icon_path", "icon_dir", "icon_root">>,
                               YStr(<<".">>))),
        "card_spacing", get_first(general, <<"card_spacing", "spacing">>, YStr(<<"2pt">>))),
        "embed_styles", get_first(general, <<"embed_styles", "embed_css">>, YTrue)),
        "markdown", get_first(general,
                              <<"markdown", "md_config", "md", "md_conf", "markdown_config">>,
                              YDict(EmptyMap)))

\* Deck._interpret_source, lines 131-147: the three auxiliary references
StageSubSources(files, base, tx, general) ==
    sub_source(files,
        sub_source(files,
            sub_source(files, Step("", <<>>, tx), general,
                       <<"stylesheet", "styles", "css", "style">>,
                       base \o <<".css">>, FALSE, <<>>),
            general, <<"header">>, base \o <<".html.header">>, FALSE, <<>>),
        general, <<"template">>, base, TRUE, TemplateExts)

\* the staged entries, given the outcome of the normalizer
StageEntries(prev, r) ==
    IF r.exc # "" THEN Step(r.exc, <<>>, prev.tx)
    ELSE Step("", <<>>,
              tx_setattr(tx_setattr(prev.tx, "cards", r.cards), "card_index", r.card_index))

\* Deck._interpret_source, lines 149-166, after the step `prev`
StageCards(prev, deck_info, order) ==
    IF prev.exc # "" THEN prev
    ELSE StageEntries(prev, InterpretCards(deck_info, order))

\* the trackers of the ancestors, line 110
Hierarchy(files, deps) == [n \in 1..Len(deps) |-> SourceFile(files, deps[n])]

\* Deck._interpret_source from line 110 on, given what _parse_definitions
\* returned or raised
AfterParse(files, source, tx, parsed, order) ==
    IF parsed.exc # "" THEN Step(parsed.exc, parsed.arg, tx)
    ELSE StageCards(
             StageSubSources(files, BaseOf(source.path),
                 StageOptions(BaseOf(source.path),
                     tx_setattr(tx, "hierarchy", Hierarchy(files, parsed.deps)),
                     parsed.defs, GeneralOf(parsed.defs)),
                 GeneralOf(parsed.defs)),
             parsed.defs, order)

\* the body of Deck._interpret_source run on a transaction over the Deck's
\* attributes; `order` is the iteration order of a cards mapping
interpret_source(files, source, delegate, order) ==
    CHOOSE step \in
        {AfterParse(files, source,
                    tx_setattr(Transaction(delegate), "sub_sources", EmptyMap),
                    parsed, order) :
            parsed \in {parse_definitions(files, source.path, <<>>, 1)}} : TRUE

\* the iteration orders of the cards section of a merged definition
OrdersIn(parsed) ==
    IF parsed.exc = "" /\ "cards" \in DOMAIN parsed.defs
    THEN OrdersOf(parsed.defs["cards"])
    ELSE {<<>>}

\* the iteration orders of the cards section of the definition a pass merges
PassOrders(files, source) ==
    UNION {OrdersIn(parsed) : parsed \in {parse_definitions(files, source.path, <<>>, 1)}}

\* the refresh calls of the condition of Deck.sync: the root, then (only if
\* the root is clean) the ancestors in order up to the first dirty one
RECURSIVE refresh_any(_, _)
refresh_any(files, hierarchy) ==
    IF Len(hierarchy) = 0 THEN [is_dirty |-> FALSE, hierarchy |-> <<>>]
    ELSE LET r == refresh(files, hierarchy[1])
             rest == refresh_any(files, Tail(hierarchy))
         IN  IF r.is_dirty
             THEN [is_dirty |-> TRUE, hierarchy |-> <<r.tracker>> \o Tail(hierarchy)]
             ELSE [is_dirty |-> rest.is_dirty, hierarchy |-> <<r.tracker>> \o rest.hierarchy]

\* the loop of the else branch of Deck.sync: every auxiliary tracker is
\* refreshed, dirty |= dep.refresh()
refresh_all(files, sub_sources) ==
    [is_dirty |-> \E a \in DOMAIN sub_sources : refresh(files, sub_sources[a]).is_dirty,
     sub_sources |-> [a \in DOMAIN sub_sources |-> refresh(files, sub_sources[a]).tracker]]

----------------------------------------------------------------------------
(* Spec: a Deck over a file system that an editor writes to *)

\* the number of writes to the file system in a behaviour
MaxWrites == 3

CssA == <<"A", ".css">>
HdrA == <<"A", ".html.header">>
TplA == <<"A", ".html.jinja2">>
FileT == <<"T", ".jinja2">>

CardsL == YList(<<YDict([copies |-> YInt(0)]), YDict(EmptyMap)>>)

\* the documents the editor saves as the root definition
RootDocs ==
    {YDict([title |-> YStr(<<"t1">>), cards |-> CardsL]),
     YDict([extends |-> YStr(FileB), title |-> YStr(<<"t2">>)]),
     YDict([title |-> YStr(<<"t3">>)]),
     YDict([extends |-> YStr(FileM), cards |-> CardsL]),
     YDict([title |-> YStr(<<"t5">>), cards |-> CardsL,
            general |-> YDict([template |-> YStr(FileT)])])}

\* the documents the editor saves as B
ParentDocs ==
    {YDict([title |-> YStr(<<"b1">>), cards |-> CardsL]),
     YDict([extends |-> YStr(FileC), cards |-> CardsL]),
     YDict([extends |-> YStr(FileA), cards |-> CardsL])}

\* the documents the editor saves as C
GrandparentDocs == {YDict([title |-> YStr(<<"c1">>)])}

\* what a write can put where; the content of an auxiliary file is not read
Saves(path) ==
    IF path = FileA THEN RootDocs
    ELSE IF path = FileB THEN ParentDocs
    ELSE IF path = FileC THEN GrandparentDocs
    ELSE {YNone}

Written == {FileA, FileB, FileC, CssA, TplA, FileT}

File(doc) == [exists |-> TRUE, mtime |-> 0, doc |-> doc]
NoFile == [exists |-> FALSE, mtime |-> 0, doc |-> YNone]

Unconstructed ==
    [constructed |-> FALSE, source |-> [path |-> <<>>, mtime |-> 0], attrs |-> EmptyMap]

\* what the last operation did: the number of resolution passes and of
\* renders, the exception raised, the attributes when the pass started, and
\* for a sync whether a root-tier / auxiliary file was written since the
\* operation before (changed) and whether a root-tier / auxiliary tracker
\* was behind its file (dirty); touched collects the files written since;
\* stale tells that the last resolution pass of a sync failed, so that the
\* committed attributes are those of an earlier pass, and was_stale is stale
\* as a sync found it
Observed(op, resolved, rendered, exc, arg, before, changed, dirty) ==
    [op |-> op, resolved |-> resolved, rendered |-> rendered, exc |-> exc, arg |-> arg,
     before |-> before, root_changed |-> changed[1], aux_changed |-> changed[2],
     root_dirty |-> dirty[1], aux_dirty |-> dirty[2], touched |-> {},
     stale |-> FALSE, was_stale |-> FALSE]

Quiet == <<FALSE, FALSE>>

Init ==
    /\ pc = "deck" /\ call = YNone /\ ret = YNone
    /\ now = 0
    /\ \E a \in {d \in RootDocs : "title" \in DOMAIN d.m /\ "general" \notin DOMAIN d.m},
          b \in {d \in ParentDocs : "title" \in DOMAIN d.m} :
            fs = (FileA :> File(a)) @@ (FileB :> File(b))
                 @@ (FileC :> File(YDict([title |-> YStr(<<"c1">>)])))
                 @@ (FileM :> NoFile) @@ (CssA :> File(YNone)) @@ (HdrA :> NoFile)
                 @@ (TplA :> File(YNone)) @@ (FileT :> NoFile)
    /\ deck = Unconstructed
    /\ obs = Observed("none", 0, 0, "", <<>>, EmptyMap, Quiet, Quiet)

\* the editor saves a file: its content is replaced and its modification
\* time moves forward
Write(path, doc) ==
    /\ now < MaxWrites
    /\ now' = now + 1
    /\ fs' = [fs EXCEPT ![path] = [exists |-> TRUE, mtime |-> now + 1, doc |-> doc]]
    /\ obs' = [Observed("write", 0, 0, "", <<>>, EmptyMap, Quiet, Quiet)
                  EXCEPT !.touched = obs.touched \cup {path}, !.stale = obs.stale]
    /\ UNCHANGED <<pc, call, ret, deck>>

\* Deck.__init__(source): the root tracker, then the first resolution pass;
\* an exception leaves no Deck
Construct ==
    /\ ~deck.constructed
    /\ \E source \in {SourceFile(fs, FileA)} :
       \E order \in PassOrders(fs, source) :
       \E result \in {interpret_source(fs, source, EmptyMap, order)} :
          /\ deck' = IF result.exc = ""
                     THEN [constructed |-> TRUE, source |-> source,
                           attrs |-> transactional(result)]
                     ELSE Unconstructed
          /\ obs' = Observed("init", 1, 0, result.exc, result.arg, EmptyMap, Quiet, Quiet)
    /\ UNCHANGED <<pc, call, ret, fs, now>>

TrackedRoots(d) == {d.source.path} \cup {d.attrs["hierarchy"][n].path : n \in 1..Len(d.attrs["hierarchy"])}
TrackedAux(d) == {d.attrs["sub_sources"][a].path : a \in DOMAIN d.attrs["sub_sources"]}

\* whether a file of the root tier / of the auxiliary tier is among touched
ChangedSince(d, touched) ==
    <<touched \cap TrackedRoots(d) # {}, touched \cap TrackedAux(d) # {}>>

\* _SourceFile.dirty
dirty(files, tracker) == files[tracker.path].mtime > tracker.mtime

\* whether a tracker of the root tier / of the auxiliary tier is dirty
DirtyTiers(files, d) ==
    <<dirty(files, d.source)
        \/ \E n \in 1..Len(d.attrs["hierarchy"]) : dirty(files, d.attrs["hierarchy"][n]),
      \E a \in DOMAIN d.attrs["sub_sources"] : dirty(files, d.attrs["sub_sources"][a])>>

\* Deck.sync(), its first branch: the root or an ancestor is dirty, so the
\* deck is resolved again and rendered
SyncResolve ==
    /\ deck.constructed
    /\ \E root \in {refresh(fs, deck.source)} :
       \E deps \in {IF root.is_dirty
                    THEN [is_dirty |-> TRUE, hierarchy |-> deck.attrs["hierarchy"]]
                    ELSE refresh_any(fs, deck.attrs["hierarchy"])} :
       \E before \in {[deck.attrs EXCEPT !["hierarchy"] = deps.hierarchy]} :
       /\ deps.is_dirty
       /\ \E order \in PassOrders(fs, root.tracker) :
          \E result \in {interpret_source(fs, root.tracker, before, order)} :
             /\ deck' = [constructed |-> TRUE, source |-> root.tracker,
                         attrs |-> transactional(result)]
             /\ obs' = [Observed("sync", 1, IF result.exc = "" THEN 1 ELSE 0,
                                 result.exc, result.arg, before,
                                 ChangedSince(deck, obs.touched), DirtyTiers(fs, deck))
                           EXCEPT !.stale = (result.exc # ""), !.was_stale = obs.stale]
    /\ UNCHANGED <<pc, call, ret, fs, now>>

\* Deck.sync(), its else branch: the auxiliary trackers are refreshed and
\* the deck is rendered if one of them was dirty
SyncRender ==
    /\ deck.constructed
    /\ \E root \in {refresh(fs, deck.source)} :
       \E deps \in {refresh_any(fs, deck.attrs["hierarchy"])} :
       \E subs \in {refresh_all(fs, deck.attrs["sub_sources"])} :
       /\ ~root.is_dirty /\ ~deps.is_dirty
       /\ deck' = [constructed |-> TRUE, source |-> root.tracker,
                   attrs |-> [deck.attrs EXCEPT !["hierarchy"] = deps.hierarchy,
                                                !["sub_sources"] = subs.sub_sources]]
       /\ obs' = [Observed("sync", 0, IF subs.is_dirty THEN 1 ELSE 0, "", <<>>, EmptyMap,
                           ChangedSince(deck, obs.touched), DirtyTiers(fs, deck))
                     EXCEPT !.stale = obs.stale, !.was_stale = obs.stale]
    /\ UNCHANGED <<pc, call, ret, fs, now>>

Sync == SyncResolve \/ SyncRender

Next ==
    \/ \E path \in Written : \E doc \in Saves(path) : Write(path, doc)
    \/ Construct
    \/ Sync

Spec == Init /\ [][Next]_vars

DeckAttributes ==
    {"hierarchy", "sub_sources", "cards", "card_index", "title", "output",
     "icon_path", "card_spacing", "embed_styles", "markdown"}

\* C1: a resolution pass that raises leaves hierarchy, sub_sources, cards,
\* card_index, title, output and the options exactly as they were when the
\* pass started; nothing the pass staged is visible.
C1_FailedPassLeavesCommitted ==
    (obs.op = "sync" /\ obs.resolved = 1 /\ obs.exc # "") =>
        /\ DOMAIN deck.attrs = DeckAttributes
        /\ \A attr \in DeckAttributes : deck.attrs[attr] = obs.before[attr]

\* C1 witness: a pass has failed at its last step (no cards section), after
\* it staged a title, a hierarchy and trackers that differ from the
\* committed ones
C1_Witness ==
    /\ obs.op = "sync" /\ obs.resolved = 1 /\ obs.exc = "KeyError"
    /\ deck.attrs["title"] # fs[FileA].doc.m["title"]
    /\ Len(deck.attrs["hierarchy"]) = 1
    /\ "extends" \notin DOMAIN fs[FileA].doc.m
    /\ deck.attrs["sub_sources"]["template"].mtime < fs[TplA].mtime

\* C2: once the root or an ancestor is modified the next sync runs one
\* re-resolution, and a sync made while no tracked file has changed since
\* the previous sync runs none, whether that re-resolution succeeded or
\* failed.
C2_OneResolutionPerChange ==
    obs.op = "sync" =>
        /\ obs.root_changed => obs.resolved = 1
        /\ (~obs.root_changed /\ ~obs.aux_changed) => obs.resolved = 0

\* C3: when no root or ancestor but an auxiliary file changed since the last
\* sync, sync renders once without resolving; when no tracked file changed,
\* it neither resolves nor renders.
C3_AuxChangeRendersOnly ==
    obs.op = "sync" =>
        /\ (~obs.root_changed /\ obs.aux_changed) => (obs.resolved = 0 /\ obs.rendered = 1)
        /\ (~obs.root_changed /\ ~obs.aux_changed) => (obs.resolved = 0 /\ obs.rendered = 0)

\* the part of C3 the code keeps, with "changed" read as "newer than the
\* tracker's baseline": no dirty root-tier tracker and a dirty auxiliary one
\* give one render and no pass and leave no tracker dirty; no dirty tracker
\* gives neither
C3_DirtyAuxRendersOnly ==
    (obs.op = "sync" /\ ~obs.root_dirty) =>
        /\ obs.resolved = 0
        /\ obs.rendered = (IF obs.aux_dirty THEN 1 ELSE 0)
        /\ DirtyTiers(fs, deck) = Quiet

----------------------------------------------------------------------------
(* SpecMerge: dict_merge applied to bounded inputs *)

\* values of a sub-mapping
SubLeaves == {YInt(1), YList(<<YInt(2)>>)}

SubMaps == MapsOver({"q", "s"}, SubLeaves)

\* values of a top-level key: scalars, sequences and sub-mappings
TopVals == {YInt(2), YList(<<YInt(1)>>)} \cup {YDict(sm) : sm \in SubMaps}

TopMaps == MapsOver({"p", "r"}, TopVals)

IgnoreSets == {{}, {<<"p">>}, {<<"p", "q">>}, {<<"r">>, <<"p", "q">>}}

\* merge({a:1,b:[1,2]}, {b:[3],c:2}, {})
ExampleBase == [a |-> YInt(1), b |-> YList(<<YInt(1), YInt(2)>>)]
ExampleOverrides == [b |-> YList(<<YInt(3)>>), c |-> YInt(2)]

InitMerge ==
    /\ pc = "call"
    /\ \/ \E b \in TopMaps, o \in TopMaps, ig \in IgnoreSets :
            call = [base |-> b, overrides |-> o, ignore_keys |-> ig]
       \/ call = [base |-> ExampleBase, overrides |-> ExampleOverrides, ignore_keys |-> {}]
    /\ ret = YNone
    /\ DeckIdle

ApplyMerge ==
    /\ pc = "call"
    /\ ret' = YDict(dict_merge(call.base, call.overrides, call.ignore_keys))
    /\ pc' = "done"
    /\ UNCHANGED <<call, fs, now, deck, obs>>

NextMerge == ApplyMerge

SpecMerge == InitMerge /\ [][NextMerge]_vars

\* what the merge contract says of result r for base b and overrides o
RECURSIVE MergedAsSpecified(_, _, _)
MergedAsSpecified(b, o, r) ==
    /\ DOMAIN r = (DOMAIN b) \cup (DOMAIN o)
    /\ \A key \in DOMAIN r :
          IF key \notin DOMAIN o THEN r[key] = b[key]
          ELSE IF key \notin DOMAIN b THEN r[key] = o[key]
          ELSE IF b[key].k = "dict" /\ o[key].k = "dict"
               THEN r[key].k = "dict" /\ MergedAsSpecified(b[key].m, o[key].m, r[key].m)
          ELSE IF b[key].k = "list" /\ o[key].k = "list"
               THEN r[key] = YList(b[key].l \o o[key].l)
          ELSE r[key] = o[key]

ExampleMerged == [a |-> YInt(1), b |-> YList(<<YInt(1), YInt(2), YInt(3)>>), c |-> YInt(2)]

\* C7: with no ignore keys, a key of one side passes through unchanged; a key
\* of both sides is merged recursively when both values are mappings,
\* concatenated base-then-overrides when both are sequences, and takes the
\* overrides value otherwise; merge({a:1,b:[1,2]}, {b:[3],c:2}) is
\* {a:1, b:[1,2,3], c:2}.
C7_MergeContract ==
    (pc = "done" /\ call.ignore_keys = {}) =>
        /\ ret.k = "dict"
        /\ MergedAsSpecified(call.base, call.overrides, ret.m)
        /\ (call.base = ExampleBase /\ call.overrides = ExampleOverrides)
               => ret.m = ExampleMerged

\* C7 witness: the example has been merged, and so has a call that recursed
\* into p (q a sequence on both sides) and overrode a sequence r by a scalar
C7_Witness_Example ==
    /\ pc = "done" /\ call.ignore_keys = {}
    /\ call.base = ExampleBase /\ call.overrides = ExampleOverrides
    /\ ret.m = ExampleMerged

C7_Witness ==
    /\ pc = "done" /\ call.ignore_keys = {}
    /\ call.base = [p |-> YDict([q |-> YList(<<YInt(2)>>), s |-> YInt(1)]),
                     r |-> YList(<<YInt(1)>>)]
    /\ call.overrides = [p |-> YDict([q |-> YList(<<YInt(2)>>)]), r |-> YInt(2)]
    /\ ret.m = [p |-> YDict([q |-> YList(<<YInt(2), YInt(2)>>), s |-> YInt(1)]),
                 r |-> YInt(2)]

BareKeys(ignore_keys) == {split0(key) : key \in {x \in ignore_keys : ~HasDot(x)}}

\* C8: a bare ignore key is absent from the result; a dotted key "p.q" does
\* not drop p: the result keeps p, merged without its q, while another
\* sub-mapping r keeps its own q.
C8_DottedIgnoreKeepsParent ==
    pc = "done" =>
        /\ \A key \in BareKeys(call.ignore_keys) : key \notin DOMAIN ret.m
        /\ (<<"p", "q">> \in call.ignore_keys /\ "p" \notin BareKeys(call.ignore_keys)
             /\ "p" \in (DOMAIN call.base) \cap (DOMAIN call.overrides)
             /\ call.base.p.k = "dict" /\ call.overrides.p.k = "dict")
               => /\ "p" \in DOMAIN ret.m
                  /\ "q" \notin DOMAIN ret.m.p.m
        /\ (<<"p", "q">> \in call.ignore_keys /\ "r" \notin BareKeys(call.ignore_keys)
             /\ "r" \in (DOMAIN call.base) \cap (DOMAIN call.overrides)
             /\ call.base.r.k = "dict" /\ call.overrides.r.k = "dict")
               => ret.m.r = YDict(dict_merge(call.base.r.m, call.overrides.r.m, {}))

----------------------------------------------------------------------------
(* SpecOrder: the order of the resolved cards over an extension chain *)

CardKeys == {"c1", "c2"}

\* an entry that tells where it was written: the file and the position
EntryAt(path, n) == YDict([name |-> YStr(<<path[1], ToString(n)>>)])

\* the cards section of a document as written: no section, a sequence of
\* one or two entries, or a mapping whose keys stand in the order `order`
NoSection == [cards |-> YNone, order |-> <<>>]

ListSections(path) ==
    {[cards |-> YList([n \in 1..len |-> EntryAt(path, n)]), order |-> <<>>] :
        len \in {1, 2}}

MapSections(path) ==
    {[cards |-> YDict([key \in {o[n] : n \in 1..Len(o)} |->
                          EntryAt(path, CHOOSE n \in 1..Len(o) : o[n] = key)]),
      order |-> o] :
        o \in UNION {Perms(S) : S \in SUBSET CardKeys}}

SectionsOf(path) == {NoSection} \cup ListSections(path) \cup MapSections(path)

\* the document of a file: its extends reference, if any, and its section
DocWith(target, section) ==
    YDict(Override(IF target = <<>> THEN EmptyMap ELSE [extends |-> YStr(target)],
                   IF section.cards.k = "none" THEN EmptyMap
                   ELSE [cards |-> section.cards]))

\* the chains A, A -> B and A -> B -> C
ChainShapes == {<<<<>>, <<>>>>, <<FileB, <<>>>>, <<FileB, FileC>>}

InitOrder ==
    /\ pc = "call"
    /\ \E shape \in ChainShapes :
       \E a \in SectionsOf(FileA), b \in SectionsOf(FileB), c \in SectionsOf(FileC) :
          call = [files |-> (FileA :> [exists |-> TRUE, doc |-> DocWith(shape[1], a)])
                            @@ (FileB :> [exists |-> TRUE, doc |-> DocWith(shape[2], b)])
                            @@ (FileC :> [exists |-> TRUE, doc |-> DocWith(<<>>, c)]),
                  orders |-> (FileA :> a.order) @@ (FileB :> b.order) @@ (FileC :> c.order)]
    /\ ret = YNone
    /\ DeckIdle

\* the iteration orders the cards mapping of the merged definition of a chain
\* (nearest first) can have. A mapping taken over from one side (util.py
\* lines 74, 77, 97) keeps the order it was written in; a mapping dict_merge
\* built has the order in which line 72 iterates a set of string keys, which
\* the hash seed of the process decides
RECURSIVE cards_orders(_, _, _)
cards_orders(files, chain, orders) ==
    LET own == files[chain[1]].doc.m
        OwnOrders == IF own["cards"].k = "dict" THEN {orders[chain[1]]} ELSE {<<>>}
    IN  IF Len(chain) = 1
        THEN IF "cards" \in DOMAIN own THEN OwnOrders ELSE {<<>>}
        ELSE LET base == FoldChain(files, Tail(chain))
             IN  IF "cards" \notin DOMAIN own
                 THEN cards_orders(files, Tail(chain), orders)
                 ELSE IF "cards" \notin DOMAIN base THEN OwnOrders
                 ELSE IF own["cards"].k = "dict" /\ base["cards"].k = "dict"
                      THEN Perms((DOMAIN base["cards"].m) \cup (DOMAIN own["cards"].m))
                 ELSE OwnOrders

\* _parse_definitions on the root, then lines 149-166 on what it returned
ApplyOrder ==
    /\ pc = "call"
    /\ \E parsed \in {parse_definitions(call.files, FileA, <<>>, 1)} :
       \E order \in cards_orders(call.files, Follow(call.files, FileA, 2), call.orders) :
          ret' = InterpretCards(parsed.defs, order)
    /\ pc' = "done"
    /\ UNCHANGED <<call, fs, now, deck, obs>>

NextOrder == ApplyOrder

SpecOrder == InitOrder /\ [][NextOrder]_vars

\* the chain of the call, nearest first
OrderChain == Follow(call.files, FileA, 2)

\* the documents whose cards mappings went into the merged mapping: from the
\* root up, the documents that have a cards section, as long as it is a
\* mapping (a sequence below a mapping is overridden, not merged)
RECURSIVE MappingLayers(_, _)
MappingLayers(files, chain) ==
    IF Len(chain) = 0 THEN <<>>
    ELSE LET d == files[chain[1]].doc.m
         IN  IF "cards" \notin DOMAIN d THEN MappingLayers(files, Tail(chain))
             ELSE IF d["cards"].k = "dict"
                  THEN <<chain[1]>> \o MappingLayers(files, Tail(chain))
             ELSE <<>>

\* x stands before y in seq
Before(seq, x, y) == \E a, b \in 1..Len(seq) : a < b /\ seq[a] = x /\ seq[b] = y

\* the identifiers of the resolved cards, in order
ResolvedIds == [n \in 1..Len(ret.cards) |-> ret.cards[n].id]

\* two keys that some document of the merge writes in the order x, y and no
\* document writes in the order y, x
WrittenBefore(x, y) ==
    LET layers == MappingLayers(call.files, OrderChain)
    IN  /\ \E n \in 1..Len(layers) : Before(call.orders[layers[n]], x, y)
        /\ \A n \in 1..Len(layers) : ~Before(call.orders[layers[n]], y, x)

\* the resolved cards have unique identifiers and card_index one entry per card
IndexedOnce ==
    /\ NoRepeat(ResolvedIds)
    /\ DOMAIN ret.card_index = {ResolvedIds[n] : n \in 1..Len(ResolvedIds)}
    /\ \A n \in 1..Len(ret.cards) : ret.card_index[ret.cards[n].id] = ret.cards[n]

\* a cards sequence gives card1 .. cardN, the entries in input order
SequenceInOrder ==
    LET merged == FoldChain(call.files, OrderChain)["cards"]
    IN  merged.k = "list" =>
            /\ Len(ret.cards) = Len(merged.l)
            /\ \A n \in 1..Len(ret.cards) :
                  /\ ret.cards[n].id = CardName(n)
                  /\ ret.cards[n].fields["name"] = merged.l[n].m["name"]

\* C11: the resolved cards are in document order with unique identifiers: a
\* sequence gives card1 .. cardN in input order, a mapping one entry per key
\* in the order the keys are written, also when the mappings of several
\* documents of the chain were merged, and card_index has exactly one entry
\* per card.
C11_DocumentOrder ==
    (pc = "done" /\ ret.exc = "") =>
        /\ IndexedOnce
        /\ SequenceInOrder
        /\ FoldChain(call.files, OrderChain)["cards"].k = "dict" =>
              /\ {ResolvedIds[n] : n \in 1..Len(ResolvedIds)}
                    = DOMAIN FoldChain(call.files, OrderChain)["cards"].m
              /\ \A x, y \in CardKeys : WrittenBefore(x, y) => Before(ResolvedIds, x, y)

\* the part of C11 the code keeps: unique identifiers, one index entry per
\* card, sequences in input order, and the written order of a mapping that
\* comes from a single document of the chain
C11_OrderOfOneDocument ==
    (pc = "done" /\ ret.exc = "") =>
        /\ IndexedOnce
        /\ SequenceInOrder
        /\ Len(MappingLayers(call.files, OrderChain)) = 1 =>
              ResolvedIds = call.orders[MappingLayers(call.files, OrderChain)[1]]

----------------------------------------------------------------------------
(* SpecFields: the fields of an entry, from the default section and its own *)

\* values of the field `name`: a scalar and two mappings with different keys
FieldVals == {YStr(<<"A">>), YDict([x |-> YInt(1)]), YDict([y |-> YInt(2)])}

FieldCopies == {YInt(0), YInt(3)}

\* the default section: any of copies, name and text (a key no entry gives)
FieldDefaults ==
    {Override(Override(cm, nm), tm) :
        cm \in MapsOver({"copies"}, FieldCopies),
        nm \in MapsOver({"name"}, FieldVals),
        tm \in MapsOver({"text"}, {YStr(<<"t">>)})}

\* an entry: any of copies and name
FieldEntries ==
    {Override(cm, nm) : cm \in MapsOver({"copies"}, FieldCopies),
                        nm \in MapsOver({"name"}, FieldVals)}

InitFields ==
    /\ pc = "call"
    /\ \E dm \in MapsOver({"default"}, {YDict(d) : d \in FieldDefaults}) :
       \E e \in FieldEntries :
          \/ call = [deck_info |-> Override(dm, [cards |-> YList(<<YDict(e)>>)]),
                     order |-> <<>>]
          \/ call = [deck_info |-> Override(dm, [cards |-> YDict([c1 |-> YDict(e)])]),
                     order |-> <<"c1">>]
    /\ ret = YNone
    /\ DeckIdle

SpecFields == InitFields /\ [][NextCards]_vars

\* the default section of the call as written
CallDefaults ==
    IF "default" \in DOMAIN call.deck_info THEN call.deck_info["default"].m ELSE EmptyMap

\* the value the fields take from the default section for a key: the value
\* written, and for copies the multiplicity it stands for
DefaultField(key) ==
    IF key = "copies" THEN YInt(CallDefaultMultiplicity) ELSE CallDefaults[key]

\* C12: the fields of an entry are the default section shallow-overridden by
\* the entry's own fields: a key the entry gives has the entry's value, a key
\* only the default section gives has the default's value, and a nested
\* value is replaced, not merged.
C12_FieldsShallowOverride ==
    (pc = "done" /\ ret.exc = "") =>
        \A n \in 1..Len(ret.cards) :
            LET own == CallEntries[n].data
                fields == ret.cards[n].fields
            IN  /\ \A key \in DOMAIN own : key \in DOMAIN fields /\ fields[key] = own[key]
                /\ \A key \in (DOMAIN CallDefaults) \ (DOMAIN own) :
                      key \in DOMAIN fields /\ fields[key] = DefaultField(key)

\* the part of C12 the code keeps: every key but copies follows the shallow
\* override, and the field copies is the default multiplicity whatever the
\* entry gives
C12_FieldsButCopies ==
    (pc = "done" /\ ret.exc = "") =>
        \A n \in 1..Len(ret.cards) :
            LET own == CallEntries[n].data
                fields == ret.cards[n].fields
            IN  /\ DOMAIN fields = (DOMAIN own) \cup (DOMAIN CallDefaults) \cup {"copies"}
                /\ \A key \in (DOMAIN own) \ {"copies"} : fields[key] = own[key]
                /\ \A key \in (DOMAIN CallDefaults) \ ((DOMAIN own) \cup {"copies"}) :
                      fields[key] = CallDefaults[key]
                /\ fields["copies"] = YInt(CallDefaultMultiplicity)

----------------------------------------------------------------------------
(* SpecAux: the three auxiliary references of a root definition A.yml *)

CssS == <<"S", ".css">>
HdrH == <<"H", ".html.header">>
TplVct == <<"A", ".vct">>
TplHj2 == <<"A", ".hj2">>
FileTVct == <<"T", ".vct">>

\* the files whose existence the references depend on
AuxFiles == {CssA, HdrA, TplA, TplHj2, TplVct, CssS, HdrH, FileT, FileTVct}

\* what `general` says of the stylesheet (by its name or by an alias), of the
\* header and of the template (with an explicit extension or without)
StylesheetRefs == {EmptyMap, [stylesheet |-> YStr(CssS)], [css |-> YStr(CssS)]}
HeaderRefs == {EmptyMap, [header |-> YStr(HdrH)]}
TemplateRefs == {EmptyMap, [template |-> YStr(FileT)], [template |-> YStr(<<"T">>)]}

InitAux ==
    /\ pc = "call"
    /\ \E present \in SUBSET AuxFiles :
       \E s \in StylesheetRefs, h \in HeaderRefs, t \in TemplateRefs :
          call = [files |-> [path \in AuxFiles |->
                                IF path \in present THEN File(YNone) ELSE NoFile],
                  general |-> Override(Override(s, h), t)]
    /\ ret = YNone
    /\ DeckIdle

\* Deck._interpret_source, lines 131-147, on a transaction that has staged an
\* empty sub_sources (line 107)
ApplyAux ==
    /\ pc = "call"
    /\ ret' = StageSubSources(call.files, BaseOf(FileA),
                              tx_setattr(Transaction(EmptyMap), "sub_sources", EmptyMap),
                              call.general)
    /\ pc' = "done"
    /\ UNCHANGED <<call, fs, now, deck, obs>>

NextAux == ApplyAux

SpecAux == InitAux /\ [][NextAux]_vars

AuxNames == {"stylesheet", "header", "template"}

AuxAliases(attr) ==
    IF attr = "stylesheet" THEN {"stylesheet", "styles", "css", "style"} ELSE {attr}

\* the document declares the reference
AuxDeclared(attr) == AuxAliases(attr) \cap (DOMAIN call.general) # {}

\* the file name the reference stands for: the declared one or the default
AuxValue(attr) ==
    IF AuxDeclared(attr)
    THEN call.general[CHOOSE key \in AuxAliases(attr) : key \in DOMAIN call.general].s
    ELSE IF attr = "stylesheet" THEN CssA
    ELSE IF attr = "header" THEN HdrA
    ELSE BaseOf(FileA)

\* the files that can stand for the reference: the file named, or for a
\* template named without extension the name with each candidate extension
AuxCandidates(attr) ==
    IF attr = "template" /\ AuxValue(attr)[Len(AuxValue(attr))] \notin ExtParts
    THEN {AuxValue(attr) \o <<TemplateExts[n]>> : n \in 1..Len(TemplateExts)}
    ELSE {AuxValue(attr)}

\* some file the reference can stand for exists
AuxFound(attr) == \E path \in AuxCandidates(attr) : Exists(call.files, path)

\* the trackers the pass staged
StagedSubSources == tx_getattr(ret.tx, "sub_sources")

\* C13: for stylesheet, header and template alike, a reference the document
\* declares whose file does not exist makes the pass fail, and a reference
\* the document omits whose default file does not exist is skipped silently:
\* the pass succeeds (the other references being found) without a tracker
\* for it.
C13_DeclaredFailsOmittedSkipped ==
    pc = "done" =>
        \A attr \in AuxNames :
            /\ (AuxDeclared(attr) /\ ~AuxFound(attr)) => ret.exc = "MissingDependency"
            /\ (~AuxDeclared(attr) /\ ~AuxFound(attr)
                  /\ \A other \in AuxNames \ {attr} : AuxFound(other))
                 => (ret.exc = "" /\ attr \notin DOMAIN StagedSubSources)

\* what the code does instead: whether a reference is declared or omitted
\* makes no difference; a stylesheet or header whose file does not exist is
\* skipped silently, a template that is not found fails the pass
C13_RequiredFailsOthersSkipped ==
    pc = "done" =>
        /\ ret.exc = (IF AuxFound("template") THEN "" ELSE "MissingDependency")
        /\ \A attr \in AuxNames : attr \in DOMAIN StagedSubSources <=> AuxFound(attr)

----------------------------------------------------------------------------
(* SpecTemplate: a Deck whose template files come and go with the edits *)

\* the root definitions saved: the template by default, named with its
\* extension, named without, and a definition without cards
TemplateDocs ==
    {YDict([cards |-> CardsL]),
     YDict([cards |-> CardsL, general |-> YDict([template |-> YStr(FileT)])]),
     YDict([cards |-> CardsL, general |-> YDict([template |-> YStr(<<"T">>)])]),
     YDict([title |-> YStr(<<"t3">>)])}

TemplateFiles == {TplA, TplVct, FileT, FileTVct}

InitTemplate ==
    /\ pc = "deck" /\ call = YNone /\ ret = YNone
    /\ now = 0
    /\ \E present \in SUBSET {TplA, TplVct} :
          fs = (FileA :> File(YDict([cards |-> CardsL])))
               @@ [path \in TemplateFiles |->
                      IF path \in present THEN File(YNone) ELSE NoFile]
    /\ deck = Unconstructed
    /\ obs = Observed("none", 0, 0, "", <<>>, EmptyMap, Quiet, Quiet)

\* the editor saves the root definition or creates / touches a template file
WriteTemplate ==
    \/ \E doc \in TemplateDocs : Write(FileA, doc)
    \/ \E path \in TemplateFiles : Write(path, YNone)

NextTemplate == WriteTemplate \/ Construct \/ Sync

SpecTemplate == InitTemplate /\ [][NextTemplate]_vars

\* the template name the root definition on disk stands for
TemplateValue ==
    LET general == GeneralOf(fs[FileA].doc.m)
    IN  IF "template" \in DOMAIN general THEN general["template"].s ELSE BaseOf(FileA)

\* the files tried for it, in order
TemplateTried ==
    IF TemplateValue[Len(TemplateValue)] \in ExtParts THEN <<TemplateValue>>
    ELSE <<TemplateValue \o <<".html.jinja2">>, TemplateValue \o <<".jinja2">>,
           TemplateValue \o <<".hj2">>, TemplateValue \o <<".vct">>>>

TemplateExisting == {n \in 1..Len(TemplateTried) : Exists(fs, TemplateTried[n])}

\* the first of them that exists
TemplateFirst ==
    TemplateTried[CHOOSE n \in TemplateExisting : \A j \in TemplateExisting : n <= j]

\* C14: a constructed Deck always holds a template tracker for a file that
\* existed when it was resolved, after construction and after successful and
\* failed syncs alike; a pass that finds neither the template named with its
\* extension nor the name with any of '.html.jinja2', '.jinja2', '.hj2',
\* '.vct' fails with MissingDependency, a pass that succeeds tracks the first
\* candidate that exists, and stylesheet and header may be absent.
C14_TemplateAlwaysTracked ==
    /\ deck.constructed =>
          /\ "template" \in DOMAIN deck.attrs["sub_sources"]
          /\ Exists(fs, deck.attrs["sub_sources"]["template"].path)
          /\ deck.attrs["sub_sources"]["template"].mtime
                <= fs[deck.attrs["sub_sources"]["template"].path].mtime
    /\ (obs.op \in {"init", "sync"} /\ obs.resolved = 1) =>
          /\ TemplateExisting = {} => obs.exc = "MissingDependency"
          /\ TemplateExisting # {} => obs.exc # "MissingDependency"
          /\ obs.exc = "" =>
                /\ deck.attrs["sub_sources"]["template"].path = TemplateFirst
                /\ DOMAIN deck.attrs["sub_sources"] = {"template"}

\* C14 witness: a Deck resolved while only A.vct existed keeps that tracker
\* after a sync that failed because the template now named does not exist;
\* it has no stylesheet and no header
C14_Witness ==
    /\ deck.constructed
    /\ obs.op = "sync" /\ obs.resolved = 1 /\ obs.exc = "MissingDependency"
    /\ TemplateExisting = {}
    /\ deck.attrs["sub_sources"] = [template |-> [path |-> TplVct, mtime |-> 0]]

\* C14 witness of the order: with A.html.jinja2 and A.vct both on disk a pass
\* has tracked A.html.jinja2
C14_Witness_FirstWins ==
    /\ deck.constructed /\ obs.exc = "" /\ obs.resolved = 1
    /\ Exists(fs, TplA) /\ Exists(fs, TplVct)
    /\ TemplateValue = BaseOf(FileA)
    /\ deck.attrs["sub_sources"]["template"].path = TplA

----------------------------------------------------------------------------
(* SpecInvalid: one resolution pass over definitions that may be invalid *)

\* what A.yml can hold: no mapping, or a mapping with or without cards that
\* extends B.yml or nothing
InvalidRootDocs ==
    {YList(<<YStr(FileA)>>)}
    \cup {YDict(Override(Override(e, c), [title |-> YStr(FileA)])) :
            e \in MapsOver({"extends"}, {YStr(FileB)}),
            c \in MapsOver({"cards"}, {CardsL})}

\* what B.yml can hold
InvalidParentDocs ==
    {YList(<<YStr(FileB)>>)}
    \cup {YDict(Override(c, [title |-> YStr(FileB)])) : c \in MapsOver({"cards"}, {CardsL})}

InitInvalid ==
    /\ pc = "call"
    /\ \E a \in InvalidRootDocs, b \in InvalidParentDocs :
       \E present \in SUBSET {CssA, HdrA, TplA} :
          call = [files |-> (FileA :> File(a)) @@ (FileB :> File(b))
                            @@ [path \in {CssA, HdrA, TplA} |->
                                   IF path \in present THEN File(YNone) ELSE NoFile]]
    /\ ret = YNone
    /\ DeckIdle

\* Deck._interpret_source on a Deck under construction; the outcome keeps the
\* transaction, whose overrides are what the pass had staged when it ended
ApplyInvalid ==
    /\ pc = "call"
    /\ \E result \in {interpret_source(call.files, SourceFile(call.files, FileA),
                                       EmptyMap, <<>>)} :
          ret' = result
    /\ pc' = "done"
    /\ UNCHANGED <<call, fs, now, deck, obs>>

NextInvalid == ApplyInvalid

SpecInvalid == InitInvalid /\ [][NextInvalid]_vars

\* the documents the pass reads: A.yml and, if A.yml is a mapping that
\* extends it, B.yml
InvalidChain == Follow(call.files, FileA, 1)

\* a document read is not a mapping at the top level
NotAMapping == \E n \in 1..Len(InvalidChain) : call.files[InvalidChain[n]].doc.k # "dict"

\* every document read is a mapping and none has the cards key, so that the
\* merged definition has none
NoCardsKey ==
    \A n \in 1..Len(InvalidChain) :
        /\ call.files[InvalidChain[n]].doc.k = "dict"
        /\ "cards" \notin DOMAIN call.files[InvalidChain[n]].doc.m

\* the pass ended before it did any merge or auxiliary work: all it staged
\* is the empty sub_sources of line 107
NoWorkDone == ret.tx.overrides = [sub_sources |-> EmptyMap]

\* C15: a definition that is not a mapping at the top level, or whose merged
\* definition has no cards key, makes the pass fail with the Invalid
\* Definition error of the DeckError family (not CyclicDependency, not
\* MissingDependency), raised before any merge or auxiliary-resolution work.
C15_InvalidDefinitionFirst ==
    (pc = "done" /\ (NotAMapping \/ NoCardsKey)) =>
        /\ ret.exc = "DeckError"
        /\ NoWorkDone

\* the part of C15 the code keeps: a document that is not a mapping raises
\* DeckError before anything but the empty sub_sources is staged
C15_NotAMappingRaisesFirst ==
    (pc = "done" /\ NotAMapping) => (ret.exc = "DeckError" /\ NoWorkDone)

\* what the code does without a cards key: the hierarchy, the options and
\* the auxiliary trackers are staged first; a missing template then raises
\* MissingDependency, and otherwise line 152 raises KeyError
C15_NoCardsRaisesLast ==
    (pc = "done" /\ NoCardsKey) =>
        /\ ret.exc = (IF Exists(call.files, TplA) THEN "KeyError" ELSE "MissingDependency")
        /\ {"hierarchy", "title", "output", "markdown"} \subseteq DOMAIN ret.tx.overrides
        /\ Exists(call.files, CssA) => "stylesheet" \in DOMAIN ret.tx.overrides["sub_sources"]

----------------------------------------------------------------------------
(* Deck.sync and the errors of a resolution pass *)

\* the structural errors of a resolution pass
StructuralErrors == {"CyclicDependency", "MissingDependency", "DeckError"}

\* C16: when the re-resolution of a sync fails with a structural error
\* (cyclic dependency, missing dependency, invalid definition), sync catches
\* it: the call returns to its caller without raising, so that a caller that
\* syncs several decks in turn goes on to the next deck.
C16_SyncCatchesStructuralErrors ==
    (obs.op = "sync" /\ obs.resolved = 1) => obs.exc \notin StructuralErrors

\* what the code does: whatever the pass raises leaves sync, which then
\* neither renders nor changes the committed attributes
C16_SyncPropagates ==
    (obs.op = "sync" /\ obs.resolved = 1 /\ obs.exc # "") =>
        /\ obs.rendered = 0
        /\ \A attr \in DeckAttributes : deck.attrs[attr] = obs.before[attr]

----------------------------------------------------------------------------
(* Recovery of a Deck after a sync whose resolution pass failed *)

\* a resolution pass over the files as they are now would succeed
WouldResolve ==
    \E result \in {interpret_source(fs, SourceFile(fs, FileA), EmptyMap, <<>>)} :
        result.exc = ""

\* the attributes a pass over the files as they are now commits
ResolvedNow ==
    transactional(interpret_source(fs, SourceFile(fs, FileA), EmptyMap, <<>>))

\* C17: after a sync whose re-resolution failed the deck recovers: once the
\* files are such that resolution would succeed, whichever file the fixing
\* edit touched (the root, an ancestor of the committed hierarchy, an
\* ancestor the broken edit newly referenced, a newly created template
\* file), a sync performs a successful re-resolution whose result replaces
\* the stale committed state.
C17_RecoversAfterFailedSync ==
    (obs.op = "sync" /\ obs.was_stale /\ WouldResolve) =>
        /\ obs.resolved = 1 /\ obs.exc = ""
        /\ ~obs.stale
        /\ deck.attrs = ResolvedNow

\* the part of C17 the code keeps: a fixing edit that touches the root or an
\* ancestor of the committed hierarchy is followed by a successful
\* re-resolution that replaces the stale state
C17_RecoversWhenTrackedFileFixed ==
    (obs.op = "sync" /\ obs.was_stale /\ WouldResolve /\ obs.root_changed) =>
        /\ obs.resolved = 1 /\ obs.exc = ""
        /\ ~obs.stale
        /\ deck.attrs = ResolvedNow

----------------------------------------------------------------------------
(* SpecRace: a resolution pass step by step, with an editor that saves *)
(* files between its steps                                              *)

\* the locals of a pass: the documents read so far and, for each, the
\* modification time of the version that was read
NoPass == [docs |-> EmptyMap, read |-> EmptyMap]

\* the Deck: the root tracker, the committed hierarchy and title, and the
\* versions whose content went into the committed model
NewDeck ==
    [source |-> [path |-> <<>>, mtime |-> 0], hierarchy |-> <<>>, title |-> YNone,
     read |-> EmptyMap]

\* what the editor saves as A.yml and as B.yml at time n
RaceDocs(path, n) ==
    IF path = FileA
    THEN {YDict([extends |-> YStr(FileB), cards |-> CardsL]),
          YDict([title |-> YInt(n), cards |-> CardsL])}
    ELSE {YDict([title |-> YInt(n)])}

InitRace ==
    /\ pc = "new" /\ call = NoPass /\ ret = YNone
    /\ now = 0
    /\ \E a \in RaceDocs(FileA, 0), b \in RaceDocs(FileB, 0) :
          fs = (FileA :> File(a)) @@ (FileB :> File(b))
    /\ deck = NewDeck
    /\ obs = NoObs

\* the editor saves a file, at any moment
Save ==
    /\ now < MaxWrites
    /\ \E path \in {FileA, FileB} : \E doc \in RaceDocs(path, now + 1) :
          fs' = [fs EXCEPT ![path] = [exists |-> TRUE, mtime |-> now + 1, doc |-> doc]]
    /\ now' = now + 1
    /\ UNCHANGED <<pc, call, ret, deck, obs>>

\* Deck.__init__, line 101: the root tracker
TrackRoot ==
    /\ pc = "new"
    /\ deck' = [deck EXCEPT !.source = SourceFile(fs, FileA)]
    /\ pc' = "read_root"
    /\ UNCHANGED <<call, ret, fs, now, obs>>

\* _parse_definitions, lines 70-74, for the root
ReadRoot ==
    /\ pc = "read_root"
    /\ call' = [docs |-> (FileA :> fs[FileA].doc), read |-> (FileA :> fs[FileA].mtime)]
    /\ pc' = IF "extends" \in DOMAIN fs[FileA].doc.m THEN "read_parent" ELSE "stage"
    /\ UNCHANGED <<ret, fs, now, deck, obs>>

\* _parse_definitions, lines 70-74, in the recursive call of line 87
ReadParent ==
    /\ pc = "read_parent"
    /\ \E parent \in {ParentPath(FileA, call.docs[FileA].m)} :
          call' = [docs |-> (parent :> fs[parent].doc) @@ call.docs,
                   read |-> (parent :> fs[parent].mtime) @@ call.read]
    /\ pc' = "stage"
    /\ UNCHANGED <<ret, fs, now, deck, obs>>

\* lines 91-94 and Deck._interpret_source from line 110 to the commit: the
\* documents read are merged, the trackers of the ancestors are created
Stage ==
    /\ pc = "stage"
    /\ \E deps \in {IF FileB \in DOMAIN call.docs THEN <<FileB>> ELSE <<>>} :
       \E defs \in {IF Len(deps) = 0 THEN call.docs[FileA].m
                    ELSE dict_merge(call.docs[FileB].m, call.docs[FileA].m,
                                    {<<"extends">>})} :
          deck' = [deck EXCEPT !.hierarchy = Hierarchy(fs, deps),
                               !.title = dict_get(defs, "title"),
                               !.read = call.read]
    /\ pc' = "idle"
    /\ call' = NoPass
    /\ UNCHANGED <<ret, fs, now, obs>>

\* Deck.sync, line 255: the refresh calls; a dirty root-tier file starts a pass
SyncCheck ==
    /\ pc = "idle"
    /\ \E root \in {refresh(fs, deck.source)} :
       \E deps \in {IF root.is_dirty
                    THEN [is_dirty |-> TRUE, hierarchy |-> deck.hierarchy]
                    ELSE refresh_any(fs, deck.hierarchy)} :
          /\ deck' = [deck EXCEPT !.source = root.tracker, !.hierarchy = deps.hierarchy]
          /\ pc' = IF deps.is_dirty THEN "read_root" ELSE "idle"
    /\ UNCHANGED <<call, ret, fs, now, obs>>

NextRace == Save \/ TrackRoot \/ ReadRoot \/ ReadParent \/ Stage \/ SyncCheck

SpecRace == InitRace /\ [][NextRace]_vars

\* the trackers of the root tier of the committed Deck
RaceTrackers == {deck.source} \cup {deck.hierarchy[n] : n \in 1..Len(deck.hierarchy)}

\* C18: no modification of a tracked definition file is lost when the editor
\* saves between the steps of a pass: for the root and every ancestor the
\* baseline of the tracker is never newer than the version whose content
\* went into the committed model, so that a file saved at any moment after
\* it was read, also before its tracker was created, is dirty for the next
\* sync.
C18_NoModificationLost ==
    pc = "idle" =>
        \A tracker \in RaceTrackers :
            /\ tracker.mtime <= deck.read[tracker.path]
            /\ fs[tracker.path].mtime > deck.read[tracker.path] => dirty(fs, tracker)

\* the part of C18 the code keeps: the root tracker is created or rebased
\* before the root is read, so a save of the root is never lost
C18_RootNotLost ==
    pc = "idle" =>
        /\ deck.source.mtime <= deck.read[FileA]
        /\ fs[FileA].mtime > deck.read[FileA] => dirty(fs, deck.source)

\* what is lost: B.yml saved after it was read and before line 110 leaves a
\* Deck whose trackers are all clean and whose title is not the one on disk
C18_StaleAndClean ==
    /\ pc = "idle"
    /\ \A tracker \in RaceTrackers : ~dirty(fs, tracker)
    /\ Len(deck.hierarchy) = 1
    /\ deck.title # fs[FileB].doc.m["title"]

====
